---- MODULE Spec2Model ----
(***************************************************************************)
(* A model of c_result.h: the Result tagged union, its constructors, the   *)
(* typed accessors (both the DEBUG and the non-DEBUG macro families), the  *)
(* ownership flag and free_result, together with the heap they act on.     *)
(*                                                                         *)
(* The anonymous union `data` is modelled by its object representation:    *)
(* `data` is the sequence of the PtrSize bytes at offset 0 of the union    *)
(* (message, value.pointer, value.string, every scalar member and          *)
(* value.custom.data all start there), least significant byte first, and   *)
(* `destructor` is the second word of value.custom.  Member sizes are      *)
(* those of an LP64 little-endian target.                                  *)
(***************************************************************************)
EXTENDS Integers, Sequences, FiniteSets, TLC

\* ---------------------------------------------------------------- bounds
\* Number of heap addresses (address 0 is NULL).
MaxBlocks == 2
\* Number of free_result calls made on the one Result of a behaviour.
MaxFrees == 2

\* ------------------------------------------------------ program constants
SUCCESS == 0
ERR_OUT_OF_MEMORY == -2
ERR_FILE_NOT_FOUND == -6
ERR_INVALID_STATE == -11
APP_RESULT_CODE_START == -1000
\* sizeof(char *) == sizeof(void *): the width of the union's first word.
PtrSize == 8

\* The result codes a caller passes to make_error in this model.  SUCCESS is
\* included: make_error does not reject it.
Codes == {SUCCESS, ERR_OUT_OF_MEMORY, ERR_FILE_NOT_FOUND, ERR_INVALID_STATE,
          APP_RESULT_CODE_START}

\* typedef enum { ... } ResultValueType
ResultValueType ==
    {"NONE", "POINTER", "STRING", "INT", "LONG", "FLOAT", "DOUBLE", "BOOL",
     "CHAR", "SHORT", "UINT", "ULONG", "SIZE_T", "INT8", "UINT8", "INT16",
     "UINT16", "INT32", "UINT32", "INT64", "UINT64", "CUSTOM"}

PointerTypes == {"POINTER", "STRING", "CUSTOM"}

ScalarTypes == ResultValueType \ (PointerTypes \cup {"NONE"})

\* The kinds that have an access_result_* macro (every kind but NONE).
AccessTypes == ResultValueType \ {"NONE"}

\* sizeof of the union member that belongs to a type tag.
SizeOf(t) ==
    CASE t \in {"BOOL", "CHAR", "INT8", "UINT8"} -> 1
      [] t \in {"SHORT", "INT16", "UINT16"} -> 2
      [] t \in {"INT", "UINT", "FLOAT", "INT32", "UINT32"} -> 4
      [] OTHER -> PtrSize

\* ------------------------------------------------- object representations
RECURSIVE Encode(_, _)
\* The n-byte little-endian representation of the non-negative number v.
Encode(v, n) == IF n = 0 THEN << >> ELSE <<v % 256>> \o Encode(v \div 256, n - 1)

RECURSIVE Fill(_, _)
\* n bytes, each b.
Fill(n, b) == IF n = 0 THEN << >> ELSE <<b>> \o Fill(n - 1, b)

\* The null pointer, and the zero default of an n-byte member.
Zero(n) == Fill(n, 0)

NullPtr == Zero(PtrSize)

Addrs == 1..MaxBlocks

\* The pointer to heap address a (a = 0 is NULL).
PtrTo(a) == Encode(a, PtrSize)

IsHeapPtr(p) == \E a \in Addrs : PtrTo(a) = p

AddrOf(p) == CHOOSE a \in Addrs : PtrTo(a) = p

\* Payload values of the scalar constructors (floats and doubles are named by
\* their bit patterns); 300 does not fit one byte.
ScalarValues == {0, 42, 300}

ValuesOf(t) ==
    IF t = "BOOL" THEN {0, 1}
    ELSE IF SizeOf(t) = 1 THEN {v \in ScalarValues : v < 256}
    ELSE ScalarValues

\* Bytes of the union that a store to a narrower member leaves unspecified
\* (C11 6.2.6.1p7): the byte value they all take.
JunkBytes == {0, 170}

\* What a read of a bool member yields when its byte is neither 0 nor 1.
IndetBool == {"false", "true", "raw"}

\* Contents of the caller's string buffers.
Strings == {"File not found", "Invalid filename"}

\* What the caller first writes into its buffer.
FirstString == "File not found"

NoDestructor == "NULL"

Destructors == {NoDestructor, "destructor"}

\* ------------------------------------------------------------------ state
VARIABLES
    DEBUG,      \* the build flag: which family of access_result_* is compiled
    pc,         \* "start": no Result yet; "live": a Result exists; "aborted"
    result,     \* the Result struct
    heap,       \* heap[a] = [live, content] for each address
    caller_ptr, \* the buffer the caller allocated and passed in (0: none)
    orig,       \* the constructor call that made the Result
    nfree,      \* number of free_result calls on the Result so far
    transferred, \* result_transfer_ownership was called on the Result
    free_log,   \* the pointers free_result passed to free(), in order
    dtor_log,   \* the pointers free_result passed to the custom destructor
    fault,      \* "none", or the undefined free() that happened
    last        \* the last operation and what it returned

vars == <<DEBUG, pc, result, heap, caller_ptr, orig, nfree, transferred,
          free_log, dtor_log, fault, last>>

\* Result res = {0};
ZeroResult ==
    [code |-> 0, value_type |-> "NONE", owns_memory |-> FALSE,
     data |-> NullPtr, destructor |-> NoDestructor]

NoCall ==
    [ctor |-> "none", code |-> 0, kind |-> "NONE", value |-> NullPtr,
     ownership |-> FALSE, message |-> 0, content |-> "", copy |-> 0,
     destructor |-> NoDestructor]

Ret(op, kind, bytes, static, diag) ==
    [op |-> op, kind |-> kind, bytes |-> bytes, static |-> static, diag |-> diag]

\* The string literal result_get_error_message returns.
NoErrorMessage == "No error message"

\* ------------------------------------------------------------ constructors
\* make_error as it would be if it kept the caller's pointer instead of
\* copying the message.
make_error_alias(h, code, message, copy) ==
    [res |-> [ZeroResult EXCEPT !.code = code, !.value_type = "NONE",
                                !.owns_memory = TRUE,
                                !.data = PtrTo(message)],
     heap |-> h]

\* make_error as it would be if a failed allocation left the code as passed.
make_error_keeps_code(h, code, message, copy) ==
    LET res == [ZeroResult EXCEPT !.code = code, !.value_type = "NONE",
                                  !.owns_memory = TRUE]
    IN  IF message # 0 /\ copy # 0
        THEN [res |-> [res EXCEPT !.data = PtrTo(copy)],
              heap |-> [h EXCEPT ![copy] =
                           [live |-> TRUE, content |-> h[message].content]]]
        ELSE [res |-> res, heap |-> h]

\* make_error as it would be without the line that sets owns_memory.
make_error_unowned(h, code, message, copy) ==
    LET res == [ZeroResult EXCEPT !.code = code, !.value_type = "NONE"]
    IN  IF message # 0
        THEN IF copy # 0
             THEN [res |-> [res EXCEPT !.data = PtrTo(copy)],
                   heap |-> [h EXCEPT ![copy] =
                                [live |-> TRUE, content |-> h[message].content]]]
             ELSE [res |-> [res EXCEPT !.data = NullPtr,
                                       !.code = ERR_OUT_OF_MEMORY],
                   heap |-> h]
        ELSE [res |-> res, heap |-> h]

\* make_error: the message is copied into a fresh block `copy` that malloc
\* returned (copy = 0: malloc failed).  `message` is the address of the
\* caller's string (0: NULL).
make_error(h, code, message, copy) ==
    LET res == [ZeroResult EXCEPT !.code = code, !.value_type = "NONE",
                                  !.owns_memory = TRUE]
    IN  IF message # 0
        THEN IF copy # 0
             THEN [res |-> [res EXCEPT !.data = PtrTo(copy)],
                   heap |-> [h EXCEPT ![copy] =
                                [live |-> TRUE, content |-> h[message].content]]]
             ELSE [res |-> [res EXCEPT !.data = NullPtr,
                                       !.code = ERR_OUT_OF_MEMORY],
                   heap |-> h]
        ELSE [res |-> res, heap |-> h]

make_success_ptr(value, ownership) ==
    [ZeroResult EXCEPT !.code = SUCCESS, !.value_type = "POINTER",
                       !.owns_memory = ownership, !.data = value]

make_success_string(value, ownership) ==
    [ZeroResult EXCEPT !.code = SUCCESS, !.value_type = "STRING",
                       !.owns_memory = ownership, !.data = value]

\* make_success_int, _long, _float, ..., _uint64: the value is stored into the
\* member of type t; the rest of the word takes the unspecified byte junk.
make_success_scalar(t, value, junk) ==
    [ZeroResult EXCEPT !.code = SUCCESS, !.value_type = t,
                       !.owns_memory = FALSE,
                       !.data = Encode(value, SizeOf(t))
                                   \o Fill(PtrSize - SizeOf(t), junk)]

make_success_custom(data, destructor, owns_memory) ==
    [ZeroResult EXCEPT !.code = SUCCESS, !.value_type = "CUSTOM",
                       !.owns_memory = owns_memory, !.data = data,
                       !.destructor = destructor]

\* -------------------------------------------------------------- inspection
is_result_success(res) == res.code = SUCCESS

\* The read of the union member of type t: the first SizeOf(t) bytes of the
\* word.  A bool whose byte is neither 0 nor 1 has no defined value: u picks
\* what the build makes of it.
Member(res, t, u) ==
    LET bytes == SubSeq(res.data, 1, SizeOf(t))
    IN  IF t = "BOOL" /\ bytes[1] \notin {0, 1}
        THEN CASE u = "false" -> <<0>>
               [] u = "true" -> <<1>>
               [] OTHER -> bytes
        ELSE bytes

\* #ifdef DEBUG: ACCESS_RESULT(result, type_enum, member, default_val), which
\* every access_result_* of the DEBUG build expands to.
ACCESS_RESULT(res, t, u) ==
    IF is_result_success(res) /\ res.value_type = t
    THEN [bytes |-> Member(res, t, u), diag |-> FALSE]
    ELSE [bytes |-> Zero(SizeOf(t)), diag |-> TRUE]

\* #else: the access_result_* macros of the non-DEBUG build.
access_result(res, t, u) ==
    IF is_result_success(res)
    THEN [bytes |-> Member(res, t, u), diag |-> FALSE]
    ELSE [bytes |-> Zero(SizeOf(t)), diag |-> FALSE]

\* The accessor of the build in use.
access_result_build(debug, res, t, u) ==
    IF debug THEN ACCESS_RESULT(res, t, u) ELSE access_result(res, t, u)

\* result_get_error_message: the string literal, or the pointer data.message.
result_get_error_message(res) ==
    IF is_result_success(res) \/ res.data = NullPtr
    THEN [static |-> NoErrorMessage, bytes |-> << >>]
    ELSE [static |-> "", bytes |-> res.data]

result_owns_memory(res) == res.owns_memory

\* result_transfer_ownership as it would be if giving ownership away also
\* dropped the Result's pointer.
result_transfer_ownership_drops(res, transfer_ownership) ==
    [res EXCEPT !.owns_memory = transfer_ownership,
                !.data = IF transfer_ownership THEN @ ELSE NullPtr]

result_transfer_ownership(res, transfer_ownership) ==
    [res EXCEPT !.owns_memory = transfer_ownership]

\* ----------------------------------------------------------------- release
\* free(p) of the C library as free_result calls it: a no-op on NULL, a
\* deallocation of a live block, and undefined otherwise (a block already
\* freed, or a pointer malloc never returned): the program aborts or goes on.
free(h, p, outcome) ==
    IF p = NullPtr
    THEN [heap |-> h, fault |-> "none", pc |-> "live"]
    ELSE IF IsHeapPtr(p) /\ h[AddrOf(p)].live
    THEN [heap |-> [h EXCEPT ![AddrOf(p)].live = FALSE], fault |-> "none",
          pc |-> "live"]
    ELSE [heap |-> h,
          fault |-> IF IsHeapPtr(p) THEN "double free" ELSE "invalid free",
          pc |-> outcome]

\* The caller's destructor, called on custom.data: it releases the object.
destructor_call(h, p) ==
    IF IsHeapPtr(p) THEN [h EXCEPT ![AddrOf(p)].live = FALSE] ELSE h

\* free_result as it would be with one line of it changed:
\*   "ignores_flag"  the success branch does not test owns_memory;
\*   "keeps_flag"    owns_memory is not cleared at the end;
\*   "keeps_code"    the code is not set to ERR_INVALID_STATE at the end;
\*   "also_frees"    free(custom.data) follows the destructor call;
\*   "frees_scalar"  the switch's default case frees the word as a pointer.
free_result_variant(h, res, outcome, v) ==
    LET done == [res EXCEPT
                    !.code = IF v = "keeps_code" THEN @ ELSE ERR_INVALID_STATE,
                    !.owns_memory = IF v = "keeps_flag" THEN @ ELSE FALSE]
        none == [res |-> done, heap |-> h, freed |-> << >>, destroyed |-> << >>,
                 fault |-> "none", pc |-> "live"]
        plain(p) == LET f == free(h, p, outcome)
                    IN  [res |-> done, heap |-> f.heap, freed |-> <<p>>,
                         destroyed |-> << >>, fault |-> f.fault, pc |-> f.pc]
    IN  IF is_result_success(res) /\ (res.owns_memory \/ v = "ignores_flag")
        THEN CASE res.value_type = "POINTER" -> plain(res.data)
               [] res.value_type = "STRING" -> plain(res.data)
               [] res.value_type = "CUSTOM" ->
                    IF res.destructor # NoDestructor
                    THEN IF v = "also_frees"
                         THEN [plain(res.data) EXCEPT
                                   !.destroyed = <<res.data>>]
                         ELSE [none EXCEPT
                                   !.heap = destructor_call(h, res.data),
                                   !.destroyed = <<res.data>>]
                    ELSE plain(res.data)
               [] OTHER -> IF v = "frees_scalar" THEN plain(res.data) ELSE none
        ELSE IF res.owns_memory /\ res.data # NullPtr
        THEN plain(res.data)
        ELSE none

free_result_frees_scalar(h, res, outcome) ==
    free_result_variant(h, res, outcome, "frees_scalar")

free_result_ignores_flag(h, res, outcome) ==
    free_result_variant(h, res, outcome, "ignores_flag")

free_result_keeps_flag(h, res, outcome) ==
    free_result_variant(h, res, outcome, "keeps_flag")

free_result_keeps_code(h, res, outcome) ==
    free_result_variant(h, res, outcome, "keeps_code")

free_result_also_frees(h, res, outcome) ==
    free_result_variant(h, res, outcome, "also_frees")

\* free_result on a non-null Result *: the struct, the heap, the calls made.
free_result(h, res, outcome) ==
    LET done == [res EXCEPT !.code = ERR_INVALID_STATE, !.owns_memory = FALSE]
        none == [res |-> done, heap |-> h, freed |-> << >>, destroyed |-> << >>,
                 fault |-> "none", pc |-> "live"]
        plain(p) == LET f == free(h, p, outcome)
                    IN  [res |-> done, heap |-> f.heap, freed |-> <<p>>,
                         destroyed |-> << >>, fault |-> f.fault, pc |-> f.pc]
    IN  IF is_result_success(res) /\ res.owns_memory
        THEN CASE res.value_type = "POINTER" -> plain(res.data)
               [] res.value_type = "STRING" -> plain(res.data)
               [] res.value_type = "CUSTOM" ->
                    IF res.destructor # NoDestructor
                    THEN [none EXCEPT !.heap = destructor_call(h, res.data),
                                      !.destroyed = <<res.data>>]
                    ELSE plain(res.data)
               [] OTHER -> none
        ELSE IF res.owns_memory /\ res.data # NullPtr
        THEN plain(res.data)
        ELSE none

\* ----------------------------------------------------------------- actions
Init ==
    /\ DEBUG \in BOOLEAN
    /\ pc = "start"
    /\ result = ZeroResult
    /\ heap = [a \in Addrs |-> [live |-> FALSE, content |-> ""]]
    /\ caller_ptr = 0
    /\ orig = NoCall
    /\ nfree = 0
    /\ transferred = FALSE
    /\ free_log = << >>
    /\ dtor_log = << >>
    /\ fault = "none"
    /\ last = Ret("none", "NONE", << >>, "", FALSE)

BoolBytes(b) == IF b THEN <<1>> ELSE <<0>>

\* The caller allocates a buffer and fills it, before it builds the Result
\* (the file buffer and the message buffer of process_file).
caller_malloc(a) ==
    /\ pc = "start"
    /\ caller_ptr = 0
    /\ ~heap[a].live
    /\ heap' = [heap EXCEPT ![a] = [live |-> TRUE, content |-> FirstString]]
    /\ caller_ptr' = a
    /\ last' = Ret("malloc", "NONE", PtrTo(a), "", FALSE)
    /\ UNCHANGED <<DEBUG, pc, result, orig, nfree, transferred, free_log, dtor_log, fault>>

\* The caller overwrites the buffer it passed to make_error.
caller_mutate(s) ==
    /\ pc = "live"
    /\ orig.ctor = "make_error"
    /\ caller_ptr # 0
    /\ heap[caller_ptr].live
    /\ heap[caller_ptr].content # s
    /\ heap' = [heap EXCEPT ![caller_ptr].content = s]
    /\ last' = Ret("caller_mutate", "NONE", PtrTo(caller_ptr), "", FALSE)
    /\ UNCHANGED <<DEBUG, pc, result, caller_ptr, orig, nfree, transferred, free_log,
                   dtor_log, fault>>

\* The caller gives up the buffer it passed to make_error.
caller_free ==
    /\ pc = "live"
    /\ orig.ctor = "make_error"
    /\ caller_ptr # 0
    /\ heap[caller_ptr].live
    /\ heap' = [heap EXCEPT ![caller_ptr].live = FALSE]
    /\ last' = Ret("caller_free", "NONE", PtrTo(caller_ptr), "", FALSE)
    /\ UNCHANGED <<DEBUG, pc, result, caller_ptr, orig, nfree, transferred, free_log,
                   dtor_log, fault>>

Constructed(res, call) ==
    /\ pc = "start"
    /\ pc' = "live"
    /\ result' = res
    /\ orig' = call
    /\ last' = Ret(call.ctor, call.kind, << >>, "", FALSE)
    /\ UNCHANGED <<DEBUG, caller_ptr, nfree, transferred, free_log, dtor_log, fault>>

make_error_call(code, message, copy) ==
    /\ message \in {0, caller_ptr}
    /\ copy \in IF message = 0 THEN {0}
                 ELSE {0} \cup {a \in Addrs : ~heap[a].live}
    /\ LET made == make_error(heap, code, message, copy)
       IN  /\ heap' = made.heap
           /\ Constructed(made.res,
                  [NoCall EXCEPT !.ctor = "make_error", !.code = code,
                       !.message = message, !.copy = copy,
                       !.content = IF message = 0 THEN ""
                                   ELSE heap[message].content])

make_success_ptr_call(value, ownership) ==
    /\ value \in {NullPtr, PtrTo(caller_ptr)}
    /\ heap' = heap
    /\ Constructed(make_success_ptr(value, ownership),
           [NoCall EXCEPT !.ctor = "make_success_ptr", !.kind = "POINTER",
                !.value = value, !.ownership = ownership])

make_success_string_call(value, ownership) ==
    /\ value \in {NullPtr, PtrTo(caller_ptr)}
    /\ heap' = heap
    /\ Constructed(make_success_string(value, ownership),
           [NoCall EXCEPT !.ctor = "make_success_string", !.kind = "STRING",
                !.value = value, !.ownership = ownership])

\* A scalar Result is built from a value alone: the caller holds no buffer.
make_success_scalar_call(t, value, junk) ==
    /\ caller_ptr = 0
    /\ value \in ValuesOf(t)
    /\ SizeOf(t) = PtrSize => junk = 0
    /\ heap' = heap
    /\ Constructed(make_success_scalar(t, value, junk),
           [NoCall EXCEPT !.ctor = "make_success_scalar", !.kind = t,
                !.value = Encode(value, SizeOf(t))])

make_success_custom_call(data, destructor, owns_memory) ==
    /\ data \in {NullPtr, PtrTo(caller_ptr)}
    /\ heap' = heap
    /\ Constructed(make_success_custom(data, destructor, owns_memory),
           [NoCall EXCEPT !.ctor = "make_success_custom", !.kind = "CUSTOM",
                !.value = data, !.ownership = owns_memory,
                !.destructor = destructor])

\* An inspection as it would be if reading the Result also took the
\* ownership of its memory away from it.
Inspected_takes_ownership(ret) ==
    /\ pc = "live"
    /\ last' = ret
    /\ result' = [result EXCEPT !.owns_memory = FALSE]
    /\ UNCHANGED <<DEBUG, pc, heap, caller_ptr, orig, nfree, transferred,
                   free_log, dtor_log, fault>>

\* An operation that only reads the Result.
Inspected(ret) ==
    /\ pc = "live"
    /\ last' = ret
    /\ UNCHANGED <<DEBUG, pc, result, heap, caller_ptr, orig, nfree, transferred, free_log,
                   dtor_log, fault>>

is_result_success_call ==
    /\ pc = "live"
    /\ Inspected(Ret("is_result_success", "NONE",
                     BoolBytes(is_result_success(result)), "", FALSE))

result_owns_memory_call ==
    /\ pc = "live"
    /\ Inspected(Ret("result_owns_memory", "NONE",
                     BoolBytes(result_owns_memory(result)), "", FALSE))

result_get_error_message_call ==
    /\ pc = "live"
    /\ LET m == result_get_error_message(result)
       IN  Inspected(Ret("result_get_error_message", "NONE", m.bytes,
                         m.static, FALSE))

access_result_call(t, u) ==
    /\ t # "BOOL" => u = "raw"
    /\ LET v == access_result_build(DEBUG, result, t, u)
       IN  Inspected(Ret("access_result", t, v.bytes, "", v.diag))

result_transfer_ownership_call(transfer_ownership) ==
    /\ pc = "live"
    /\ result' = result_transfer_ownership(result, transfer_ownership)
    /\ last' = Ret("result_transfer_ownership", "NONE",
                   BoolBytes(transfer_ownership), "", FALSE)
    /\ transferred' = TRUE
    /\ UNCHANGED <<DEBUG, pc, heap, caller_ptr, orig, nfree, free_log,
                   dtor_log, fault>>

\* free_result(&res); `last` keeps the ownership flag the call found.
free_result_call(outcome) ==
    /\ pc = "live"
    /\ nfree < MaxFrees
    /\ LET out == free_result(heap, result, outcome)
       IN  /\ out.fault = "none" => outcome = "live"
           /\ result' = out.res
           /\ heap' = out.heap
           /\ free_log' = free_log \o out.freed
           /\ dtor_log' = dtor_log \o out.destroyed
           /\ fault' = IF out.fault = "none" THEN fault ELSE out.fault
           /\ pc' = out.pc
    /\ nfree' = nfree + 1
    /\ last' = Ret("free_result", "NONE",
                   BoolBytes(result_owns_memory(result)), "", FALSE)
    /\ UNCHANGED <<DEBUG, caller_ptr, orig, transferred>>

\* free_result(NULL): if (!result) return;
free_result_null ==
    /\ pc \in {"start", "live"}
    /\ last' = Ret("free_result", "NULL", << >>, "", FALSE)
    /\ UNCHANGED <<DEBUG, pc, result, heap, caller_ptr, orig, nfree, transferred, free_log,
                   dtor_log, fault>>

Next ==
    \/ \E a \in Addrs : caller_malloc(a)
    \/ \E s \in Strings : caller_mutate(s)
    \/ caller_free
    \/ \E code \in Codes, message \in 0..MaxBlocks, copy \in 0..MaxBlocks :
           make_error_call(code, message, copy)
    \/ \E a \in 0..MaxBlocks, o \in BOOLEAN : make_success_ptr_call(PtrTo(a), o)
    \/ \E a \in 0..MaxBlocks, o \in BOOLEAN :
           make_success_string_call(PtrTo(a), o)
    \/ \E t \in ScalarTypes, v \in ScalarValues, j \in JunkBytes :
           make_success_scalar_call(t, v, j)
    \/ \E a \in 0..MaxBlocks, d \in Destructors, o \in BOOLEAN :
           make_success_custom_call(PtrTo(a), d, o)
    \/ is_result_success_call
    \/ result_owns_memory_call
    \/ result_get_error_message_call
    \/ \E t \in AccessTypes, u \in IndetBool : access_result_call(t, u)
    \/ \E b \in BOOLEAN : result_transfer_ownership_call(b)
    \/ \E outcome \in {"live", "aborted"} : free_result_call(outcome)
    \/ free_result_null

Spec == Init /\ [][Next]_vars

\* ------------------------------------------------------------------ claims
\* The string a pointer returned by result_get_error_message points to ("?"
\* when it points to no live block).
Deref(h, m) ==
    IF m.bytes = << >> THEN m.static
    ELSE IF IsHeapPtr(m.bytes) /\ h[AddrOf(m.bytes)].live
    THEN h[AddrOf(m.bytes)].content
    ELSE "?"

\* The caller kept to make_error's contract: the code passed is not SUCCESS.
InContract == orig.ctor = "make_error" => orig.code # SUCCESS

\* C1 (as claimed): whenever a typed accessor access_<K> has just returned,
\* the value is the stored payload if the Result is a success of kind K, and
\* the zero default of K in every other case.
C1_AccessorContract ==
    (pc = "live" /\ InContract /\ last.op = "access_result") =>
        last.bytes = IF is_result_success(result)
                        /\ result.value_type = last.kind
                     THEN orig.value
                     ELSE Zero(SizeOf(last.kind))

\* C2: for a non-zero code c and any message m, when the allocation succeeds,
\* the unreleased Result of make_error(c, m) is not a success, has code c, and
\* result_get_error_message gives m's content as it was at construction (the
\* sentinel if m is NULL) from a buffer other than the caller's, whatever the
\* caller has since done to its buffer.
C2_MakeError ==
    (/\ pc = "live"
     /\ orig.ctor = "make_error"
     /\ orig.code # SUCCESS
     /\ orig.message # 0 => orig.copy # 0
     /\ nfree = 0) =>
        /\ ~is_result_success(result)
        /\ result.code = orig.code
        /\ Deref(heap, result_get_error_message(result)) =
               IF orig.message = 0 THEN NoErrorMessage ELSE orig.content
        /\ orig.message # 0 => result.data # PtrTo(orig.message)

\* C2 witness: the caller has overwritten and then given up the buffer it
\* passed, and result_get_error_message has just returned the Result's copy.
C2_Witness ==
    /\ pc = "live"
    /\ orig.ctor = "make_error"
    /\ orig.code = ERR_FILE_NOT_FOUND
    /\ orig.message # 0
    /\ orig.copy # 0
    /\ nfree = 0
    /\ ~heap[orig.message].live
    /\ heap[orig.message].content # orig.content
    /\ last.op = "result_get_error_message"
    /\ last.bytes = PtrTo(orig.copy)
    /\ heap[orig.copy].content = orig.content

\* C3: when the allocation of the message copy fails, whatever code was
\* asked for, the Result has code ERR_OUT_OF_MEMORY, no message (the getter
\* gives the sentinel) and is not a success; and no free_result on it, then
\* or later, passes anything to free() or to a destructor.
C3_AllocationFailure ==
    (/\ pc # "start"
     /\ orig.ctor = "make_error"
     /\ orig.message # 0
     /\ orig.copy = 0) =>
        /\ free_log = << >>
        /\ dtor_log = << >>
        /\ fault = "none"
        /\ \A a \in Addrs : a # orig.message => ~heap[a].live
        /\ nfree = 0 =>
               /\ result.code = ERR_OUT_OF_MEMORY
               /\ ~is_result_success(result)
               /\ result.data = NullPtr
               /\ result_get_error_message(result).static = NoErrorMessage

\* C3 witness: the allocation failed for a code other than
\* ERR_OUT_OF_MEMORY, and free_result has run on the Result.
C3_Witness ==
    /\ orig.ctor = "make_error"
    /\ orig.message # 0
    /\ orig.copy = 0
    /\ orig.code = ERR_FILE_NOT_FOUND
    /\ nfree >= 1
    /\ last.op = "free_result"
    /\ free_log = << >>

\* C4: for a success Result of kind Pointer or String, the constructor
\* stores the ownership argument as the flag, and free_result passes the
\* payload to free(), once, if the flag is true when it is called, and
\* otherwise calls nothing and leaves the heap as it is.
C4_OwnershipDecidesRelease ==
    [][/\ (pc = "start" /\ pc' = "live"
              /\ orig'.kind \in {"POINTER", "STRING"}) =>
           /\ result'.owns_memory = orig'.ownership
           /\ result'.data = orig'.value
       /\ (pc = "live" /\ nfree = 0 /\ nfree' = 1
              /\ orig.kind \in {"POINTER", "STRING"}) =>
           IF result.owns_memory
           THEN /\ free_log' = <<orig.value>>
                /\ dtor_log' = << >>
                /\ fault' = "none"
                /\ IsHeapPtr(orig.value) =>
                       /\ heap[AddrOf(orig.value)].live
                       /\ ~heap'[AddrOf(orig.value)].live
           ELSE /\ free_log' = << >>
                /\ dtor_log' = << >>
                /\ heap' = heap]_vars

\* C4 witness: a payload block given with ownership = false, owned after
\* result_transfer_ownership(r, true), and deallocated by free_result.
C4_Witness ==
    /\ orig.kind \in {"POINTER", "STRING"}
    /\ ~orig.ownership
    /\ IsHeapPtr(orig.value)
    /\ transferred
    /\ nfree = 1
    /\ free_log = <<orig.value>>
    /\ ~heap[AddrOf(orig.value)].live
    /\ fault = "none"

\* C5: a free_result that directly follows a free_result on the same Result
\* calls neither free() nor a destructor and leaves the heap as it is.
C5_SecondReleaseInert ==
    [][(pc = "live" /\ last.op = "free_result" /\ last.kind = "NONE"
           /\ nfree' = nfree + 1) =>
           /\ free_log' = free_log
           /\ dtor_log' = dtor_log
           /\ heap' = heap
           /\ fault' = fault
           /\ pc' = "live"]_vars

\* C5 witness: an error Result that owns a message copy, released twice with
\* no ownership transfer: the copy was freed once.
C5_Witness ==
    /\ orig.ctor = "make_error"
    /\ orig.copy # 0
    /\ ~transferred
    /\ nfree = 2
    /\ last.op = "free_result"
    /\ last.kind = "NONE"
    /\ free_log = <<PtrTo(orig.copy)>>
    /\ fault = "none"

\* C6: free_result on the Result of make_success_custom(data, destructor,
\* owns_memory), with no ownership transfer in between, calls destructor(data)
\* once and no free() if owns_memory and a destructor was given, free(data)
\* once and no destructor if owns_memory and the destructor is NULL, and
\* neither if owns_memory is false.
C6_CustomRelease ==
    [][(pc = "live" /\ orig.ctor = "make_success_custom" /\ ~transferred
           /\ nfree = 0 /\ nfree' = 1) =>
           IF orig.ownership
           THEN IF orig.destructor # NoDestructor
                THEN dtor_log' = <<orig.value>> /\ free_log' = << >>
                ELSE dtor_log' = << >> /\ free_log' = <<orig.value>>
           ELSE dtor_log' = << >> /\ free_log' = << >> /\ heap' = heap]_vars

\* C6 witness: an owned custom payload with a destructor, released.
C6_Witness ==
    /\ orig.ctor = "make_success_custom"
    /\ orig.ownership
    /\ orig.destructor # NoDestructor
    /\ IsHeapPtr(orig.value)
    /\ ~transferred
    /\ nfree = 1
    /\ dtor_log = <<orig.value>>
    /\ free_log = << >>

\* C7: when free_result(&r) returns, r's code is ERR_INVALID_STATE, its
\* ownership flag is false and is_result_success(r) is false; free_result(NULL)
\* changes neither the Result nor the heap and calls nothing.
C7_ReleasePostcondition ==
    [][/\ (last'.op = "free_result" /\ last'.kind = "NONE" /\ pc' = "live") =>
           /\ result'.code = ERR_INVALID_STATE
           /\ ~result_owns_memory(result')
           /\ ~is_result_success(result')
       /\ (last'.op = "free_result" /\ last'.kind = "NULL") =>
           UNCHANGED <<pc, result, heap, nfree, free_log, dtor_log, fault>>]_vars

\* C7 witness: a scalar success, which owns nothing, has been released.
C7_Witness ==
    /\ orig.ctor = "make_success_scalar"
    /\ orig.value # Zero(SizeOf(orig.kind))
    /\ last.op = "free_result"
    /\ last.kind = "NONE"
    /\ nfree = 1
    /\ result.code = ERR_INVALID_STATE

\* C8 (as claimed): in every state of a Result, released ones included,
\* result_get_error_message returns the sentinel if the Result is a success or
\* holds no stored error message, and otherwise the live buffer make_error
\* stored; never a pointer to freed memory or to a success payload.
C8_MessageNeverDangling ==
    (pc = "live" /\ InContract) =>
        LET m == result_get_error_message(result)
        IN  IF is_result_success(result) \/ orig.ctor # "make_error"
               \/ orig.copy = 0
            THEN m.static = NoErrorMessage /\ m.bytes = << >>
            ELSE m.bytes = PtrTo(orig.copy) /\ heap[orig.copy].live

\* C9 (as claimed): for every Result and every typed accessor, the DEBUG
\* build returns the value the non-DEBUG build returns.
C9_DebugObservational ==
    (pc = "live" /\ InContract) =>
        \A t \in AccessTypes, u \in IndetBool :
            ACCESS_RESULT(result, t, u).bytes = access_result(result, t, u).bytes

\* C10 (as claimed): in every state of a Result, code == SUCCESS if and only
\* if value_type != RESULT_TYPE_NONE.
C10_DiscriminantConsistency ==
    (pc = "live" /\ InContract) =>
        (result.code = SUCCESS <=> result.value_type # "NONE")

\* C11: result_transfer_ownership(r, b) sets the ownership flag to b and
\* changes nothing else: not the code, the kind, the payload or message
\* pointer, the destructor, nor the heap; it calls neither free() nor a
\* destructor, and result_owns_memory(r) is b afterwards.
C11_TransferFrame ==
    [][(last'.op = "result_transfer_ownership") =>
           /\ result' = [result EXCEPT !.owns_memory = (last'.bytes = <<1>>)]
           /\ result_owns_memory(result') = (last'.bytes = <<1>>)
           /\ UNCHANGED <<heap, free_log, dtor_log, fault, pc, nfree>>]_vars

\* C11 witness: ownership of a live string payload, given as not owned, has
\* just been handed to the Result; the payload is still allocated.
C11_Witness ==
    /\ last.op = "result_transfer_ownership"
    /\ last.bytes = <<1>>
    /\ orig.ctor = "make_success_string"
    /\ ~orig.ownership
    /\ IsHeapPtr(orig.value)
    /\ nfree = 0
    /\ result_owns_memory(result)
    /\ result.data = orig.value
    /\ heap[AddrOf(orig.value)].live
    /\ free_log = << >>

\* C12: every scalar constructor yields a Result that does not own memory,
\* and free_result on a success Result of a scalar kind calls neither free()
\* nor a destructor and leaves the heap as it is, whatever the ownership flag
\* is when it is called.
C12_ScalarReleaseFreesNothing ==
    [][/\ (pc = "start" /\ pc' = "live"
              /\ orig'.ctor = "make_success_scalar") =>
           /\ ~result_owns_memory(result')
           /\ is_result_success(result')
           /\ result'.value_type \in ScalarTypes
       /\ (pc = "live" /\ orig.ctor = "make_success_scalar"
              /\ nfree = 0 /\ nfree' = 1) =>
           /\ free_log' = << >>
           /\ dtor_log' = << >>
           /\ heap' = heap
           /\ fault' = "none"
           /\ pc' = "live"]_vars

\* C12 witness: a scalar success whose flag result_transfer_ownership had set
\* to true has just been released, and nothing was freed.
C12_Witness ==
    /\ orig.ctor = "make_success_scalar"
    /\ orig.value # Zero(SizeOf(orig.kind))
    /\ transferred
    /\ nfree = 1
    /\ last.op = "free_result"
    /\ last.kind = "NONE"
    /\ last.bytes = <<1>>
    /\ free_log = << >>
    /\ dtor_log = << >>
    /\ fault = "none"

\* C13 (as claimed): in every unreleased state in which the Result is an
\* error that holds a message, the ownership flag is true.
C13_ErrorOwnsMessage ==
    (/\ pc = "live"
     /\ InContract
     /\ nfree = 0
     /\ ~is_result_success(result)
     /\ result.value_type = "NONE"
     /\ result.data # NullPtr) =>
        result_owns_memory(result)

InspectionOps ==
    {"is_result_success", "result_owns_memory", "result_get_error_message",
     "access_result"}

\* C14: is_result_success, result_owns_memory, result_get_error_message and
\* every access_result_* leave the Result, the heap and the record of calls to
\* free() and to destructors as they are; is_result_success returns true
\* exactly when the code is SUCCESS, and result_owns_memory returns the flag.
C14_InspectionReadOnly ==
    [][(last'.op \in InspectionOps) =>
           /\ UNCHANGED <<result, heap, pc, nfree, transferred, free_log,
                          dtor_log, fault>>
           /\ last'.op = "is_result_success" =>
                  last'.bytes = BoolBytes(result.code = SUCCESS)
           /\ last'.op = "result_owns_memory" =>
                  last'.bytes = BoolBytes(result.owns_memory)]_vars

\* C14 witness: an owned live string payload has just been read with
\* access_result_string, and the Result is still as it was constructed.
C14_Witness ==
    /\ last.op = "access_result"
    /\ last.kind = "STRING"
    /\ orig.ctor = "make_success_string"
    /\ orig.ownership
    /\ IsHeapPtr(orig.value)
    /\ last.bytes = orig.value
    /\ nfree = 0
    /\ ~transferred
    /\ result = make_success_string(orig.value, TRUE)
    /\ heap[AddrOf(orig.value)].live

\* C15 (as claimed): once free_result has been called on a Result, no later
\* result_transfer_ownership or free_result on it passes anything to free() or
\* to a destructor.
C15_ReleasedIsTerminal ==
    [][(InContract /\ nfree >= 1) =>
           /\ free_log' = free_log
           /\ dtor_log' = dtor_log
           /\ fault' = fault]_vars

\* The heap blocks the Result was constructed as the owner of: the message
\* copy of make_error, and the payload given with ownership = true.
OwnedBlocks ==
    {a \in Addrs :
        \/ orig.ctor = "make_error" /\ orig.copy = a
        \/ /\ orig.ctor \in {"make_success_ptr", "make_success_string",
                             "make_success_custom"}
           /\ orig.ownership
           /\ orig.value = PtrTo(a)}

\* Constructed, released by free_result, and no ownership transfer made.
ReleasedUntransferred == pc # "start" /\ nfree >= 1 /\ ~transferred

\* C16 (as claimed): after construct-then-release with no ownership transfer,
\* every block the Result was the owner of is deallocated, for every code
\* passed to make_error, zero included.
C16_NoLeak ==
    ReleasedUntransferred =>
        \A a \in OwnedBlocks : ~heap[a].live

\* C16 (amended): the same, for every non-zero code passed to make_error; the
\* block is deallocated once, by free() or by the custom destructor, and no
\* free() is undefined.
C16_NoLeakInContract ==
    (ReleasedUntransferred /\ InContract) =>
        /\ \A a \in OwnedBlocks :
               /\ ~heap[a].live
               /\ free_log \o dtor_log = <<PtrTo(a)>>
        /\ fault = "none"

\* C16 witness: the message copy of make_error with a non-zero code has been
\* deallocated by the one free_result that followed.
C16_Witness ==
    /\ ReleasedUntransferred
    /\ orig.ctor = "make_error"
    /\ orig.code = ERR_FILE_NOT_FOUND
    /\ orig.copy # 0
    /\ nfree = 1
    /\ last.op = "free_result"
    /\ ~heap[orig.copy].live
    /\ free_log = <<PtrTo(orig.copy)>>

====
